---------------------------- MODULE Spec2Model ----------------------------
(***************************************************************************)
(* Model of src/src/loss_grad_softmax.py: the three objectives             *)
(*   loss_grad_softmax_naive, loss_grad_softmax_vectorized and             *)
(*   loss_grad_svm_vectorized                                              *)
(* called by a caller that owns the arrays W, X, y and the scalar reg.     *)
(*                                                                         *)
(* Arrays.  A matrix is a sequence of rows, a vector a sequence.  Python   *)
(* indices are 0-based; element i of a Python array is element i+1 here.   *)
(* Labels keep their Python values (0-based, possibly negative or >= K).   *)
(*                                                                         *)
(* Numbers.  The caller's W and X hold integer-valued floats, so W.dot(X), *)
(* the hinge margins and their sums are exact.  The softmax quantities are *)
(* floats with a bounded exponent range: np.exp(s) of a score s <= 0 is    *)
(* the multiple 2^(MinExp+s) of the smallest positive float, and 0 when    *)
(* s < -MinExp (underflow).  Scores are therefore measured in units of     *)
(* ln 2 and MinExp stands for the 1074 of IEEE doubles.  Quotients are     *)
(* kept as reduced fractions; rounding of the last bit is not modelled     *)
(* (the statements checked are "up to rounding"), the special values are:  *)
(* 0/0 is nan, log(0) is -inf, nan propagates through every operation.     *)
(* A softmax loss is kept as the record [data, n, reg] that stands for      *)
(* -log(data)/n + reg, data being the product of the true-class            *)
(* probabilities.                                                          *)
(*                                                                         *)
(* Language.  The module is Python 2 code (xrange): range() yields a list, *)
(* `/` on numpy floats is true division, and 0/0 on the Python int 0       *)
(* raises ZeroDivisionError while 0.0/0 on a numpy float yields nan.       *)
(*                                                                         *)
(* Calls.  Each objective is one atomic action: it either raises (the      *)
(* exception and the line are recorded) or returns (loss, grad).  The      *)
(* caller keeps its inputs and may call the objectives in any order, any   *)
(* number of times.  An empty label vector with a non-empty batch is not   *)
(* among the inputs.                                                       *)
(***************************************************************************)
EXTENDS Integers, Sequences, FiniteSets, TLC

\* ------------------------------------------------------------- bounds
MaxN == 2          \* largest batch size N the caller passes
MaxCells == 6      \* most entries K*N of a score matrix W.dot(X)
MinExp == 1        \* np.exp(s) underflows to 0 for s < -MinExp
KSet == {2, 3}     \* numbers of classes K the caller uses
DSet == {1}        \* feature dimensions D of W
WVals == {-1, 0}      \* entries of W
XVals == {-2, 1}      \* entries of X
RegVals == {-1, 0, 1} \* values of reg (reg < 0 violates the precondition)

\* ------------------------------------------------- integer helpers
Abs(a) == IF a < 0 THEN -a ELSE a

Max2(a, b) == IF a >= b THEN a ELSE b

RECURSIVE GCD(_, _)
GCD(a, b) == IF b = 0 THEN a ELSE GCD(b, a % b)

RECURSIVE Pow2(_)
Pow2(e) == IF e = 0 THEN 1 ELSE 2 * Pow2(e - 1)

RECURSIVE SumSeq(_)
SumSeq(s) == IF s = <<>> THEN 0 ELSE Head(s) + SumSeq(Tail(s))

RECURSIVE MaxSeq(_)
\* np.max of a non-empty vector
MaxSeq(s) == IF Len(s) = 1 THEN s[1] ELSE Max2(Head(s), MaxSeq(Tail(s)))

\* ------------------------------------------------- float values
\* A float is nan, +inf, or the finite reduced fraction n/d (d > 0).
NaN == [t |-> "nan", n |-> 0, d |-> 1]

Inf == [t |-> "inf", n |-> 0, d |-> 1]

Fin(a, b) ==
    LET g == GCD(Abs(a), b)
    IN  [t |-> "fin", n |-> a \div g, d |-> b \div g]

F(a) == Fin(a, 1)

IsFin(x) == x.t = "fin"

\* x / y of floats with x, y >= 0 or y > 0: 0/0 is nan, a/0 (a > 0) is inf
FDiv(x, y) ==
    IF x.t = "nan" \/ y.t = "nan" THEN NaN
    ELSE IF x.t = "inf" THEN (IF y.t = "inf" THEN NaN ELSE Inf)
    ELSE IF y.t = "inf" THEN F(0)
    ELSE IF y.n = 0 THEN (IF x.n = 0 THEN NaN ELSE Inf)
    ELSE IF y.n > 0 THEN Fin(x.n * y.d, x.d * y.n)
    ELSE Fin(-(x.n * y.d), x.d * (-y.n))

FAdd(x, y) ==
    IF x.t = "nan" \/ y.t = "nan" THEN NaN
    ELSE IF x.t = "inf" \/ y.t = "inf" THEN Inf
    ELSE Fin(x.n * y.d + y.n * x.d, x.d * y.d)

FMul(x, y) ==
    IF x.t = "nan" \/ y.t = "nan" THEN NaN
    ELSE IF x.t = "inf" \/ y.t = "inf"
         THEN (IF (x.t = "fin" /\ x.n = 0) \/ (y.t = "fin" /\ y.n = 0)
               THEN NaN ELSE Inf)
    ELSE Fin(x.n * y.n, x.d * y.d)

FNeg(x) == IF IsFin(x) THEN Fin(-x.n, x.d) ELSE x

FSub(x, y) == FAdd(x, FNeg(y))

\* np.exp(s) for an integer score s <= 0, in units of the smallest positive
\* float: 2^(MinExp+s), and 0 below the exponent range
Exp(s) == IF s < -MinExp THEN 0 ELSE Pow2(MinExp + s)

\* np.log of a probability, negated and kept symbolically: the float
\* [t |-> "fin", n, d] of the log domain stands for -log(n/d); -log(0) is +inf
NegLog(p) ==
    IF p.t = "nan" THEN NaN
    ELSE IF p.t = "inf" THEN Inf
    ELSE IF p.n = 0 THEN Inf
    ELSE p

\* the Python int 0 / float 0.0 a loss starts from, in the log domain
LZero == F(1)

\* a + b in the log domain: -log(p) - log(q) = -log(p*q)
LAdd(a, b) ==
    IF a.t = "nan" \/ b.t = "nan" THEN NaN
    ELSE IF a.t = "inf" \/ b.t = "inf" THEN Inf
    ELSE Fin(a.n * b.n, a.d * b.d)

\* ------------------------------------------------- arrays
Rows(A) == Len(A)

\* number of columns of a matrix with at least one row
Cols(A) == Len(A[1])

Zeros(r, c) == [k \in 1..r |-> [j \in 1..c |-> F(0)]]

\* column i (1-based) of a matrix
Col(A, i) == [k \in 1..Rows(A) |-> A[k][i]]

\* u.dot(v) for integer vectors of equal length
Dot(u, v) == SumSeq([j \in 1..Len(u) |-> u[j] * v[j]])

\* np.sum(W * W)
SumSq(W) == SumSeq([k \in 1..Rows(W) |-> Dot(W[k], W[k])])

\* 0.5 * reg * np.sum(W * W)
RegTerm(W, r) == Fin(r * SumSq(W), 2)

\* numpy's index check along an axis of size n: a Python index i is accepted
\* for -n <= i < n, anything else raises IndexError
InRange(i, n) == -n <= i /\ i < n

\* the 1-based position a Python index selects: negative indices count from
\* the end of the axis
Pos(i, n) == IF i < 0 THEN i + n + 1 ELSE i + 1

\* ------------------------------------------------- the caller's inputs
Matrices(r, c, V) == [1..r -> [1..c -> V]]

\* labels inside and just outside the valid range 0..K-1
LabelVals(K) == -1..K

ValidLabels(K) == 0..(K - 1)

\* The inputs a caller passes: every valid input within the bounds, and
\* inputs that violate exactly one precondition of the interface
\* (reg < 0; a label outside [0,K); len(y) # N; X with one row too many).
InputsOf(K, D, N) ==
    LET Ws == Matrices(K, D, WVals)
        Xs == Matrices(D, N, XVals)
        ys == [1..N -> ValidLabels(K)]
        Mk(W, X, y, r) == [W |-> W, X |-> X, y |-> y, reg |-> r]
    IN  { Mk(W, X, y, r) : W \in Ws, X \in Xs, y \in ys, r \in RegVals }
        \cup { Mk(W, X, y, 0) : W \in Ws, X \in Xs,
                               y \in [1..N -> LabelVals(K)] \ ys }
        \cup { Mk(W, X, y, 0) : W \in Ws, X \in Xs,
                               y \in ([1..1 -> ValidLabels(K)]
                                      \cup [1..(N + 1) -> ValidLabels(K)]) \ ys }
        \cup { Mk(W, Append(X, [n \in 1..N |-> 1]), y, 0) :
                               W \in Ws, X \in Xs, y \in ys }

Shapes ==
    { q \in KSet \X DSet \X (0..MaxN) : q[1] * q[3] <= MaxCells }

Inputs == UNION { InputsOf(q[1], q[2], q[3]) : q \in Shapes }

\* ------------------------------------------------- the object store
\* During a call the store holds the caller's objects W, X, y and the arrays
\* the call allocates, each under the name the code binds it to.  An
\* in-place statement (-=, +=, /=, indexed assignment) rewrites the object
\* its target name refers to; every other expression yields a new array.
CallerIds == {"W", "X", "y"}

Store(h) == [W |-> h.W, X |-> h.X, y |-> h.y]

\* the store with object `ref` (new or existing) holding `val`
Put(st, ref, val) ==
    [o \in DOMAIN st \cup {ref} |-> IF o = ref THEN val ELSE st[o]]

Raise(st, exc, line) ==
    [kind |-> "raise", exc |-> exc, line |-> line, st |-> st]

\* ------------------------------------------------- loss_grad_softmax_naive
\* scores[cls] = W[cls, :].dot(sample_x) for every class (lines 26-29)
SampleScores(W, sample_x) == [cls \in 1..Rows(W) |-> Dot(W[cls], sample_x)]

\* scores -= np.max(scores) (line 31)
ShiftByMax(scores) ==
    LET m == MaxSeq(scores) IN [k \in 1..Len(scores) |-> scores[k] - m]

\* np.exp(scores) (lines 33, 40)
ExpVec(scores) == [k \in 1..Len(scores) |-> Exp(scores[k])]

\* grad[j, :] += percent_exp_score[j] * sample_x for every class j, then
\* grad[correct_class, :] -= sample_x (lines 41-45); c is the 1-based row
NaiveGradUpdate(grad, percent, sample_x, c) ==
    LET g1 == [j \in 1..Rows(grad) |->
                 [d \in 1..Len(grad[j]) |->
                    FAdd(grad[j][d], FMul(percent[j], F(sample_x[d])))]]
    IN  [g1 EXCEPT ![c] = [d \in 1..Len(g1[c]) |-> FSub(g1[c][d], F(sample_x[d]))]]

\* The body of `for i in range(num_train)` from sample i (1-based) on, with
\* the loss accumulated so far (log domain) and grad in the store.
RECURSIVE NaiveLoop(_, _, _)
NaiveLoop(st, i, loss) ==
    IF i > Cols(st.X) THEN [kind |-> "ok", st |-> st, loss |-> loss]
    ELSE
      LET sample_x == Col(st.X, i)
          K == Rows(st.W)
      IN
      IF Len(st.W[1]) # Len(sample_x) THEN Raise(st, "ValueError", 29)
      ELSE
      LET scores == ShiftByMax(SampleScores(st.W, sample_x)) IN
      IF i > Len(st.y) THEN Raise(st, "IndexError", 32)
      ELSE
      LET correct_class == st.y[i]
          exps == ExpVec(scores)
          sum_exp_scores == SumSeq(exps)
      IN
      IF ~InRange(correct_class, K) THEN Raise(st, "IndexError", 35)
      ELSE
      LET c == Pos(correct_class, K)
          loss_x == NegLog(FDiv(F(exps[c]), F(sum_exp_scores)))
          percent == [j \in 1..K |-> FDiv(F(exps[j]), F(sum_exp_scores))]
          st1 == Put(st, "grad", NaiveGradUpdate(st.grad, percent, sample_x, c))
          \* the iteration's locals, kept for inspection
          st2 == Put(st1, "iters", Append(st.iters,
                     [scores |-> scores, sum_exp_scores |-> sum_exp_scores,
                      ratio |-> FDiv(F(exps[c]), F(sum_exp_scores)),
                      loss_x |-> loss_x, percent |-> percent]))
      IN  NaiveLoop(st2, i + 1, LAdd(loss, loss_x))

\* grad /= num_train (lines 49, 73)
GradDivide(grad, n) ==
    [k \in 1..Rows(grad) |-> [d \in 1..Len(grad[k]) |-> FDiv(grad[k][d], F(n))]]

\* a variant that scales the caller's W in place (W *= reg; grad += W)
AddRegScalingW(st, ref, r) ==
    LET scaled == [k \in 1..Rows(st.W) |-> [d \in 1..Len(st.W[k]) |->
                      r * st.W[k][d]]]
        st1 == Put(st, "W", scaled)
    IN  Put(st1, ref, [k \in 1..Rows(st[ref]) |-> [d \in 1..Len(st[ref][k]) |->
                         FAdd(st[ref][k][d], F(scaled[k][d]))]])

\* grad += reg * W (lines 50, 74): the store after the statement
AddRegInPlace(st, ref, r) ==
    Put(st, ref, [k \in 1..Rows(st[ref]) |-> [d \in 1..Len(st[ref][k]) |->
                     FAdd(st[ref][k][d], F(r * st.W[k][d]))]])

\* the softmax loss -log(data)/n + reg (lines 47-48, 65-67)
SoftmaxLoss(data, n, W, r) == [data |-> data, n |-> n, reg |-> RegTerm(W, r)]

Return(st, loss, ref) ==
    [kind |-> "return", loss |-> loss, gradRef |-> ref, grad |-> st[ref], st |-> st]

loss_grad_softmax_naive(h, r) ==
    LET st0 == Put(Put(Store(h), "grad", Zeros(Rows(h.W), Cols(h.W))),
                   "iters", <<>>)
        num_train == Cols(h.X)
        lp == NaiveLoop(st0, 1, LZero)
    IN  IF lp.kind = "raise" THEN lp
        ELSE IF num_train = 0 THEN Raise(lp.st, "ZeroDivisionError", 47)
        ELSE
          LET loss == SoftmaxLoss(lp.loss, num_train, lp.st.W, r)
              st1 == Put(lp.st, "grad", GradDivide(lp.st.grad, num_train))
              st2 == AddRegInPlace(st1, "grad", r)
          IN  Return(st2, loss, "grad")

VARIABLES
    heap,   \* the caller's objects: heap.W, heap.X, heap.y
    reg,    \* the caller's regularization strength
    res     \* res[f]: what the last call of objective f returned or raised

vars == <<heap, reg, res>>

Fns == {"naive", "vectorized", "svm"}

NotCalled == [kind |-> "none"]

Init ==
    /\ \E inp \in Inputs :
          /\ heap = [W |-> inp.W, X |-> inp.X, y |-> inp.y]
          /\ reg = inp.reg
    /\ res = [f \in Fns |-> NotCalled]

\* ------------------------------------------------- numpy helpers
\* A.dot(B) for integer matrices, A of shape (r, m) and B of shape (m, c)
MatMul(A, B, c) ==
    [k \in 1..Rows(A) |-> [n \in 1..c |->
        SumSeq([j \in 1..Len(A[k]) |-> A[k][j] * B[j][n]])]]

RECURSIVE FSumSeq(_)
FSumSeq(s) == IF s = <<>> THEN F(0) ELSE FAdd(Head(s), FSumSeq(Tail(s)))

RECURSIVE LSumSeq(_)
\* np.sum of a vector of the log domain
LSumSeq(s) == IF s = <<>> THEN LZero ELSE LAdd(Head(s), LSumSeq(Tail(s)))

\* P.dot(X.T) for a float matrix P of shape (K, N) and an integer X of
\* shape (D, N)
DotXT(P, X) ==
    [k \in 1..Rows(P) |-> [d \in 1..Rows(X) |->
        FSumSeq([n \in 1..Len(P[k]) |-> FMul(P[k][n], F(X[d][n]))])]]

\* np.max of a matrix with at least one entry
MaxMat(A) == MaxSeq([k \in 1..Rows(A) |-> MaxSeq(A[k])])

\* numpy broadcasting of two lengths: equal, or one of them is 1
BroadcastOk(a, b) == a = b \/ a = 1 \/ b = 1

BroadcastLen(a, b) == IF a = 1 THEN b ELSE a

\* element j of a vector of length a broadcast to a longer length
BIdx(a, j) == IF a = 1 THEN 1 ELSE j

\* The index pairs of A[y, range(n)]: the two index arrays are broadcast
\* against each other; pair j is <<label, 1-based column>>.
IndexPairs(y, n) ==
    [j \in 1..BroadcastLen(Len(y), n) |-> <<y[BIdx(Len(y), j)], BIdx(n, j)>>]

\* every pair addresses an element of a (K, c) matrix
PairsInBounds(pairs, K, c) ==
    \A j \in 1..Len(pairs) : InRange(pairs[j][1], K) /\ pairs[j][2] <= c

\* A[y, cols]: the gathered vector
Gather(A, pairs) ==
    [j \in 1..Len(pairs) |-> A[Pos(pairs[j][1], Rows(A))][pairs[j][2]]]

\* whether element (k, n) (1-based) is addressed by one of the pairs
Addressed(pairs, K, k, n) ==
    \E j \in 1..Len(pairs) : Pos(pairs[j][1], K) = k /\ pairs[j][2] = n

\* ------------------------------------------------- loss_grad_softmax_vectorized
\* scores -= np.max(scores) (line 61): one maximum for the whole matrix
ShiftByGlobalMax(scores) ==
    LET m == MaxMat(scores)
    IN  [k \in 1..Rows(scores) |-> [n \in 1..Len(scores[k]) |-> scores[k][n] - m]]

\* np.sum(scores_exp, axis=0) (line 64)
ColumnSums(E, c) == [n \in 1..c |-> SumSeq([k \in 1..Rows(E) |-> E[k][n]])]

\* scores_exp_normalized[y, range(num_train)] -= 1 (line 71): each addressed
\* element is decremented once, however often its index pair occurs
ScatterSubOne(P, pairs) ==
    [k \in 1..Rows(P) |-> [n \in 1..Len(P[k]) |->
        IF Addressed(pairs, Rows(P), k, n) THEN FSub(P[k][n], F(1)) ELSE P[k][n]]]

loss_grad_softmax_vectorized(h, r) ==
    LET st0 == Put(Store(h), "grad", Zeros(Rows(h.W), Cols(h.W)))
        num_train == Cols(h.X)
        K == Rows(h.W)
    IN
    IF Cols(st0.W) # Rows(st0.X) THEN Raise(st0, "ValueError", 59)
    ELSE
    LET st1 == Put(st0, "scores", MatMul(st0.W, st0.X, num_train)) IN
    IF num_train = 0 THEN Raise(st1, "ValueError", 61)
    ELSE
    LET st2 == Put(st1, "scores", ShiftByGlobalMax(st1.scores))
        scores_exp == [k \in 1..K |-> ExpVec(st2.scores[k])]
    IN
    IF ~BroadcastOk(Len(st2.y), num_train) THEN Raise(st2, "IndexError", 63)
    ELSE
    LET pairs == IndexPairs(st2.y, num_train) IN
    IF ~PairsInBounds(pairs, K, num_train) THEN Raise(st2, "IndexError", 63)
    ELSE
    LET correct_scores_exp == Gather(scores_exp, pairs)
        scores_exp_sum == ColumnSums(scores_exp, num_train)
        ratio == [j \in 1..Len(pairs) |->
                    FDiv(F(correct_scores_exp[j]),
                         F(scores_exp_sum[BIdx(num_train, j)]))]
        data == LSumSeq([j \in 1..Len(ratio) |-> NegLog(ratio[j])])
        loss == SoftmaxLoss(data, num_train, st2.W, r)
        probs == [k \in 1..K |-> [n \in 1..num_train |->
                    FDiv(F(scores_exp[k][n]), F(scores_exp_sum[n]))]]
        st3 == Put(Put(Put(st2, "scores_exp_sum", scores_exp_sum),
                       "ratio", ratio), "probs", probs)
        st4 == Put(st3, "scores_exp_normalized", probs)
        st5 == Put(st4, "scores_exp_normalized",
                   ScatterSubOne(st4.scores_exp_normalized, pairs))
        st6 == Put(st5, "grad", DotXT(st5.scores_exp_normalized, st5.X))
        st7 == Put(st6, "grad", GradDivide(st6.grad, num_train))
        st8 == AddRegInPlace(st7, "grad", r)
    IN  Return(st8, loss, "grad")

\* ------------------------------------------------- loss_grad_svm_vectorized
delta == 1

\* np.maximum(0, scores_mat - correct_class_score + delta) (lines 111-114);
\* the (K, N) matrix and the vector are broadcast to c columns
Margins(S, correct, c) ==
    [k \in 1..Rows(S) |-> [n \in 1..c |->
        Max2(0, S[k][BIdx(Len(S[k]), n)]
                - correct[BIdx(Len(correct), n)] + delta)]]

\* a variant that leaves the true-class margins in place
KeepTrueClass(M, pairs) == M

\* margins_mat[y, xrange(num_train)] = 0 (line 115)
ZeroTrueClass(M, pairs) ==
    [k \in 1..Rows(M) |-> [n \in 1..Len(M[k]) |->
        IF Addressed(pairs, Rows(M), k, n) THEN 0 ELSE M[k][n]]]

\* np.sum(margins_mat > 0, axis=0) (line 126)
NumPos(M, c) ==
    [n \in 1..c |-> Cardinality({k \in 1..Rows(M) : M[k][n] > 0})]

\* scores_mat_grad[margins_mat > 0] = 1 (line 127) on the zero matrix
MarkPositive(G, M) ==
    [k \in 1..Rows(G) |-> [n \in 1..Len(G[k]) |->
        IF M[k][n] > 0 THEN 1 ELSE G[k][n]]]

\* scores_mat_grad[y, xrange(num_train)] = -1 * num_pos (line 128)
ScatterNumPos(G, pairs, num_pos) ==
    [k \in 1..Rows(G) |-> [n \in 1..Len(G[k]) |->
        IF Addressed(pairs, Rows(G), k, n)
        THEN -1 * num_pos[BIdx(Len(num_pos), n)] ELSE G[k][n]]]

\* scores_mat_grad.dot(X.T) / num_train + reg * W (line 131)
SvmGrad(G, X, n, W, r) ==
    LET IX == MatMul(G, [j \in 1..Len(G[1]) |-> [d \in 1..Rows(X) |-> X[d][j]]],
                     Rows(X))
    IN  [k \in 1..Rows(W) |-> [d \in 1..Len(W[k]) |->
            FAdd(FDiv(F(IX[k][d]), F(n)), F(r * W[k][d]))]]

loss_grad_svm_vectorized(h, r) ==
    LET st0 == Put(Store(h), "dW", Zeros(Rows(h.W), Cols(h.W)))
        num_train == Len(h.y)
        K == Rows(h.W)
        N == Cols(h.X)
    IN
    IF Cols(st0.W) # Rows(st0.X) THEN Raise(st0, "ValueError", 105)
    ELSE
    LET st1 == Put(st0, "scores_mat", MatMul(st0.W, st0.X, N))
        pairs == IndexPairs(st1.y, num_train)
    IN
    IF ~PairsInBounds(pairs, K, N) THEN Raise(st1, "IndexError", 109)
    ELSE
    LET correct_class_score == Gather(st1.scores_mat, pairs) IN
    IF ~BroadcastOk(N, num_train) THEN Raise(st1, "ValueError", 111)
    ELSE
    LET c == BroadcastLen(N, num_train)
        st2 == Put(st1, "margins_mat", Margins(st1.scores_mat, correct_class_score, c))
        st3 == Put(st2, "margins_mat", ZeroTrueClass(st2.margins_mat, pairs))
        loss == FAdd(FDiv(F(SumSeq([k \in 1..K |-> SumSeq(st3.margins_mat[k])])),
                          F(num_train)),
                     RegTerm(st3.W, r))
        st4 == Put(st3, "scores_mat_grad", [k \in 1..K |-> [n \in 1..N |-> 0]])
        num_pos == NumPos(st4.margins_mat, c)
    IN
    \* a boolean mask of another shape than the indexed array is rejected
    IF c # N THEN Raise(st4, "IndexError", 127)
    ELSE
    LET st5 == Put(st4, "scores_mat_grad",
                   MarkPositive(st4.scores_mat_grad, st4.margins_mat))
    IN
    IF ~(c = num_train \/ c = 1) THEN Raise(st5, "ValueError", 128)
    ELSE
    LET st6 == Put(st5, "scores_mat_grad",
                   ScatterNumPos(st5.scores_mat_grad, pairs, num_pos))
        st7 == Put(st6, "dW",
                   SvmGrad(st6.scores_mat_grad, st6.X, num_train, st6.W, r))
    IN  Return(st7, loss, "dW")

\* ------------------------------------------------- the caller
\* the locals of a call that the properties below inspect
Inspected ==
    {"iters", "scores", "scores_exp_sum", "ratio", "probs",
     "margins_mat", "scores_mat_grad"}

\* what the caller sees of a call: the outcome without the call's store
Outcome(o) ==
    IF o.kind = "raise" THEN [kind |-> "raise", exc |-> o.exc, line |-> o.line]
    ELSE [kind |-> "return", loss |-> o.loss, gradRef |-> o.gradRef,
          grad |-> o.grad,
          locals |-> [x \in DOMAIN o.st \cap Inspected |-> o.st[x]]]

\* the caller's objects as the call leaves them
CallerView(st) == [W |-> st.W, X |-> st.X, y |-> st.y]

Call(f, o) ==
    /\ res' = [res EXCEPT ![f] = Outcome(o)]
    /\ heap' = CallerView(o.st)
    /\ UNCHANGED reg

CallNaive == Call("naive", loss_grad_softmax_naive(heap, reg))

CallVectorized == Call("vectorized", loss_grad_softmax_vectorized(heap, reg))

CallSvm == Call("svm", loss_grad_svm_vectorized(heap, reg))

Next == CallNaive \/ CallVectorized \/ CallSvm

Spec == Init /\ [][Next]_vars

\* ------------------------------------------------- vocabulary of the claims
numClasses == Rows(heap.W)

numSamples == Cols(heap.X)

\* W.columns == X.rows and y.length == X.columns
ShapesOk == Cols(heap.W) = Rows(heap.X) /\ Len(heap.y) = numSamples

\* every label is in [0, K)
LabelsOk == \A j \in 1..Len(heap.y) : 0 <= heap.y[j] /\ heap.y[j] < numClasses

ValidInput == ShapesOk /\ LabelsOk /\ reg >= 0

Called(f) == res[f].kind # "none"

Returned(f) == res[f].kind = "return"

Raised(f) == res[f].kind = "raise"

\* S = W.X, for matching shapes
ScoreOf(k, n) == Dot(heap.W[k], Col(heap.X, n))

\* the 1-based row of sample n's label, for a valid label
TrueRow(n) == heap.y[n] + 1

SameFloat(a, b) == a.t # "nan" /\ a = b

SameGrad(g, h) ==
    \A k \in 1..Len(g) : \A d \in 1..Len(g[k]) : SameFloat(g[k][d], h[k][d])

SameLoss(a, b) == SameFloat(a.data, b.data) /\ a.n = b.n /\ a.reg = b.reg

\* ------------------------------------------------- claims
\* C1: for every valid input with N >= 1 the loop-based and the vectorized
\* softmax return the same loss and the same gradient.
C1_NaiveVectorizedAgree ==
    (ValidInput /\ numSamples >= 1 /\ Called("naive") /\ Called("vectorized"))
    => /\ Returned("naive") /\ Returned("vectorized")
       /\ SameLoss(res["naive"].loss, res["vectorized"].loss)
       /\ SameGrad(res["naive"].grad, res["vectorized"].grad)

\* the same statement for inputs whose scores the global shift keeps within
\* the exponent range (no np.exp underflows)
NoUnderflow ==
    \A k \in 1..numClasses : \A n \in 1..numSamples :
        res["vectorized"].locals.scores[k][n] >= -MinExp

AgreeWithoutUnderflow ==
    (Returned("vectorized") /\ NoUnderflow) => C1_NaiveVectorizedAgree

\* C2: in all three objectives a label outside [0,K) (negative or >= K)
\* makes the call raise an index-out-of-range error; nothing is returned.
C2_InvalidLabelRaises ==
    \A f \in Fns :
        (Called(f) /\ ShapesOk /\ ~LabelsOk)
        => (Raised(f) /\ res[f].exc = "IndexError")

\* C3: each objective fails, returning nothing, when W.columns # X.rows, or
\* y.length # X.columns, or reg < 0.
C3_PreconditionsEnforced ==
    \A f \in Fns :
        (Called(f) /\ (~ShapesOk \/ reg < 0)) => Raised(f)

\* C4: hinge objective with reg = 0: whenever every sample's true-class score
\* is at least every other class's score plus 1.0, the returned loss is
\* exactly 0.
MarginsMet ==
    \A n \in 1..numSamples : \A k \in 1..numClasses :
        k # TrueRow(n) => ScoreOf(TrueRow(n), n) >= ScoreOf(k, n) + 1

C4_HingeLossZero ==
    (Called("svm") /\ ShapesOk /\ LabelsOk /\ reg = 0 /\ MarginsMet)
    => (Returned("svm") /\ res["svm"].loss = F(0))

\* the same statement for non-empty batches
HingeLossZeroNonEmpty == numSamples >= 1 => C4_HingeLossZero

\* C5: when all sample-derived loss terms are zero, in particular for the
\* empty batch N = 0, each objective returns exactly 0.5*reg*sum(W^2): the
\* division by the number of samples neither raises nor yields nan.
DataTermsZero(f) ==
    \/ numSamples = 0
    \/ /\ Returned(f)
       /\ IF f = "svm"
          THEN \A k \in 1..numClasses : \A n \in 1..numSamples :
                  res[f].locals.margins_mat[k][n] = 0
          ELSE res[f].loss.data = LZero

\* the returned loss is exactly 0.5 * reg * np.sum(W * W)
LossIsRegTerm(f) ==
    IF f = "svm" THEN res[f].loss = RegTerm(heap.W, reg)
    ELSE res[f].loss.data = LZero /\ res[f].loss.reg = RegTerm(heap.W, reg)

C5_RegularizationOnly ==
    \A f \in Fns :
        (Called(f) /\ ValidInput /\ DataTermsZero(f))
        => (Returned(f) /\ LossIsRegTerm(f))

\* C6: no objective mutates W, X or y, over any sequence of calls, and the
\* gradient it returns is an object of its own, not one of the caller's.
C6_InputsNotMutated ==
    [][/\ heap' = heap
       /\ \A f \in Fns :
            res'[f].kind = "return" => res'[f].gradRef \notin CallerIds]_vars

C6_Witness ==
    /\ \A f \in Fns : Returned(f)
    /\ reg # 0
    /\ SumSq(heap.W) > 0
    /\ numSamples >= 2

\* C7: in both softmax implementations, after the shift every score is <= 0,
\* every normalizer Z[n] is > 0, and correct[n]/Z[n], its logarithm and the
\* probabilities are all finite.
StableSample(scores, z, ratio, probs) ==
    /\ \A k \in 1..Len(scores) : scores[k] <= 0
    /\ z > 0
    /\ IsFin(ratio) /\ IsFin(NegLog(ratio))
    /\ \A k \in 1..Len(probs) : IsFin(probs[k])

C7_ShiftPreventsNaN ==
    /\ (Returned("naive") /\ ValidInput)
       => \A n \in 1..numSamples :
            LET it == res["naive"].locals.iters[n]
            IN  StableSample(it.scores, it.sum_exp_scores, it.ratio, it.percent)
    /\ (Returned("vectorized") /\ ValidInput)
       => \A n \in 1..numSamples :
            LET l == res["vectorized"].locals
            IN  StableSample(Col(l.scores, n), l.scores_exp_sum[n], l.ratio[n],
                             Col(l.probs, n))

\* C8: shifting a sample's scores by a constant changes neither its
\* probability vector nor its loss contribution, so the per-sample shift of
\* the loop-based form and the global shift of the vectorized form give the
\* same probabilities and loss terms.
C8_ShiftInvariance ==
    (Returned("naive") /\ Returned("vectorized") /\ ValidInput)
    => \A n \in 1..numSamples :
         LET it == res["naive"].locals.iters[n]
             l == res["vectorized"].locals
         IN  /\ \A k \in 1..numClasses : SameFloat(it.percent[k], l.probs[k][n])
             /\ SameFloat(it.loss_x, NegLog(l.ratio[n]))

\* C9: the hinge indicator matrix has I[k,n] = 1 for k # y[n] with
\* S[k,n] - S[y[n],n] + 1 > 0, 0 for the other k # y[n], and
\* I[y[n],n] = -numPos[n], numPos[n] counting only classes k # y[n] with a
\* positive margin; the gradient is (I.X^T)/N + reg*W.
RawMargin(k, n) == ScoreOf(k, n) - ScoreOf(TrueRow(n), n) + 1

ExpectedNumPos(n) ==
    Cardinality({k \in 1..numClasses : k # TrueRow(n) /\ RawMargin(k, n) > 0})

ExpectedI(k, n) ==
    IF k = TrueRow(n) THEN -ExpectedNumPos(n)
    ELSE IF RawMargin(k, n) > 0 THEN 1 ELSE 0

ExpectedHingeGrad(k, d) ==
    FAdd(FDiv(F(SumSeq([n \in 1..numSamples |-> ExpectedI(k, n) * heap.X[d][n]])),
              F(numSamples)),
         F(reg * heap.W[k][d]))

C9_HingeIndicator ==
    (Called("svm") /\ ShapesOk /\ LabelsOk)
    => /\ Returned("svm")
       /\ \A k \in 1..numClasses : \A n \in 1..numSamples :
            res["svm"].locals.scores_mat_grad[k][n] = ExpectedI(k, n)
       /\ \A k \in 1..numClasses : \A d \in 1..Cols(heap.W) :
            res["svm"].grad[k][d] = ExpectedHingeGrad(k, d)

C9_Witness ==
    /\ Returned("svm") /\ ShapesOk /\ LabelsOk /\ reg # 0
    /\ numClasses = 3
    /\ \E n \in 1..numSamples : ExpectedNumPos(n) = 2
    /\ \E n \in 1..numSamples : \E k \in 1..numClasses :
          k # TrueRow(n) /\ RawMargin(k, n) = 0

\* C10: for every valid input with reg = 0 the class rows of the gradient
\* sum to the zero vector, in the hinge and in both softmax objectives.
C10_GradRowsSumToZero ==
    \A f \in Fns :
        (Returned(f) /\ ValidInput /\ numSamples >= 1 /\ reg = 0)
        => \A d \in 1..Cols(heap.W) :
              FSumSeq([k \in 1..numClasses |-> res[f].grad[k][d]]) = F(0)

=============================================================================
